---- MODULE Spec2Model ----
(***************************************************************************)
(* Model of Task2.py: read_data -> analyze_data -> generate_report, driven *)
(* by main.  One run of main is a sequential process whose position is pc. *)
(* Amounts are whole-dollar texts, for which Python's float arithmetic is  *)
(* exact, so sums are modelled by integers.                                *)
(***************************************************************************)
EXTENDS Integers, Sequences, FiniteSets

VARIABLES
  fileExists,   \* does sales_data.csv exist
  fileRows,     \* the data rows of sales_data.csv (after the header line)
  logoExists,   \* does logo.png exist
  pc,           \* position of main / the function it is in
  rdata,        \* read_data's local list `data`
  data,         \* main's `data`
  analysis,     \* main's `analysis`
  pdf,          \* the PDFReport object built by generate_report
  todo,         \* the pdf calls generate_report has still to make
  genResult,    \* the value generate_report returned
  outFile,      \* sales_report.pdf on disk
  stdout,       \* messages printed so far in this run
  calls,        \* how often each function was entered in this run
  written,      \* pdf.output calls in this run
  runs,         \* number of runs of main started
  prevOut       \* sales_report.pdf as the previous run left it

vars == <<fileExists, fileRows, logoExists, pc, rdata, data, analysis, pdf,
          todo, genResult, outFile, stdout, calls, written, runs, prevOut>>

----------------------------------------------------------------------------
(* Bounds of the model *)
MaxRows == 2
MaxAggRows == 3
MaxLong == 11
MaxRuns == 2
MaxClock == 2

(* Program constants *)
SampleLimit == 10
LineH == 10
PageBreakTrigger == 277
TopMargin == 10
HeaderLn == 20

Regions == {"East", "West"}
Products == {"Widget", "Gadget"}
AmountTexts == {"100.00", "50.00", "abc"}

Row(d, r, p, a) == [Date |-> d, Region |-> r, Product |-> p, Amount |-> a]

SmallRows == {Row("2024-01-01", r, p, a) : r \in Regions, p \in Products, a \in AmountTexts}

SmallFiles == UNION {[1..n -> SmallRows] : n \in 0..MaxRows}

AggFiles == UNION {[1..n -> SmallRows] : n \in 0..MaxAggRows}

(* A long file: n rows, row m (if any) carries the second date. *)
MarkedFile(n, m) ==
  [i \in 1..n |-> Row(IF i = m THEN "2024-01-02" ELSE "2024-01-01", "East", "Widget", "100.00")]

LongFiles == {MarkedFile(n, m) : n \in 0..MaxLong, m \in 0..MaxLong}

----------------------------------------------------------------------------
(* Python values *)
NoneData == [none |-> TRUE, rows |-> <<>>]
SomeData(rows) == [none |-> FALSE, rows |-> rows]
Falsy(d) == d.none \/ d.rows = <<>>

NoneAnalysis ==
  [none |-> TRUE, total_sales |-> 0, average_sale |-> [num |-> 0, den |-> 1],
   sales_by_region |-> <<>>, sales_by_product |-> <<>>, record_count |-> 0]

NoFile == [exists |-> FALSE, pages |-> <<>>]
NoPdf == [pages |-> <<>>, y |-> 0, alias |-> FALSE]

(* float(text): the number a text parses to, or a ValueError *)
ParseFloat(t) ==
  CASE t = "100.00" -> [ok |-> TRUE, val |-> 100]
    [] t = "50.00"  -> [ok |-> TRUE, val |-> 50]
    [] OTHER        -> [ok |-> FALSE, val |-> 0]

AllParse(rows) == \A i \in 1..Len(rows) : ParseFloat(rows[i].Amount).ok

RECURSIVE SumAmounts(_)
SumAmounts(rows) ==
  IF rows = <<>> THEN 0
  ELSE ParseFloat(Head(rows).Amount).val + SumAmounts(Tail(rows))

RECURSIVE SelectRows(_, _, _)
SelectRows(rows, field, k) ==
  IF rows = <<>> THEN <<>>
  ELSE IF Head(rows)[field] = k
       THEN <<Head(rows)>> \o SelectRows(Tail(rows), field, k)
       ELSE SelectRows(Tail(rows), field, k)

(* Variant: the last record's key is not collected *)
KeySetButLast(rows, field) == {rows[i][field] : i \in 1..(Len(rows) - 1)}

KeySet(rows, field) == {rows[i][field] : i \in 1..Len(rows)}

(* Variant: the bucket is assigned, not accumulated *)
GroupSumFirst(rows, field, k) ==
  LET sel == SelectRows(rows, field, k)
  IN IF sel = <<>> THEN 0 ELSE ParseFloat(Head(sel).Amount).val

GroupSum(rows, field, k) == SumAmounts(SelectRows(rows, field, k))

(* The orders in which iterating a Python set of strings can yield its members *)
IterOrders(S) ==
  {o \in [1..Cardinality(S) -> S] : \A i, j \in 1..Cardinality(S) : o[i] = o[j] => i = j}

(* A dict filled by iterating the key set in order o *)
SalesBy(rows, field, o) ==
  [i \in 1..Len(o) |-> [key |-> o[i], val |-> GroupSum(rows, field, o[i])]]

Analysis(rows, ro, po) ==
  [none |-> FALSE,
   total_sales |-> SumAmounts(rows),
   average_sale |-> [num |-> SumAmounts(rows), den |-> Len(rows)],
   sales_by_region |-> SalesBy(rows, "Region", ro),
   sales_by_product |-> SalesBy(rows, "Product", po),
   record_count |-> Len(rows)]


----------------------------------------------------------------------------
(* The document under construction (class PDFReport over FPDF) *)
Txt(tag, key, num) == [tag |-> tag, key |-> key, num |-> num]
Cell(txt, ln) == [op |-> "cell", txt |-> txt, ln |-> ln, h |-> LineH]
Ln(h) == [op |-> "ln", txt |-> Txt("", "", 0), ln |-> 0, h |-> h]
Raise == [op |-> "raise", txt |-> Txt("", "", 0), ln |-> 0, h |-> 0]

(* f"${x:,.2f}" *)
Money(label, x) == Txt("money", label, x)

(* PDFReport.header: optional logo, the title, then ln(20) *)
Header(logo) == [logo |-> logo, title |-> "Sales Data Analysis Report"]

(* Variant: the footer prints the page number without the total *)
FooterNoTotal(p) ==
  [p EXCEPT !.pages[Len(p.pages)].foot =
      Append(@, [page_no |-> Len(p.pages), alias |-> FALSE, nb |-> 0])]

(* PDFReport.footer: 'Page ' + str(page_no()) + '/{nb}' on the current page *)
Footer(p) ==
  [p EXCEPT !.pages[Len(p.pages)].foot =
      Append(@, [page_no |-> Len(p.pages), alias |-> TRUE, nb |-> 0])]

(* FPDF.add_page: close the current page with its footer, open a new one *)
(* with its header                                                        *)
AddPage(p, logo) ==
  LET closed == IF Len(p.pages) > 0 THEN Footer(p) ELSE p
  IN [closed EXCEPT
        !.pages = Append(@, [hdr |-> <<Header(logo)>>, body |-> <<>>, foot |-> <<>>]),
        !.y = TopMargin + HeaderLn]

(* FPDF.cell: break the page first when the cell does not fit *)
PutCell(p, c, logo) ==
  LET q == IF p.y + c.h > PageBreakTrigger THEN AddPage(p, logo) ELSE p
  IN [q EXCEPT !.pages[Len(q.pages)].body = Append(@, c.txt),
               !.y = IF c.ln = 1 THEN @ + c.h ELSE @]

(* FPDF._putpages: the alias '{nb}' is replaced by the number of pages *)
Substitute(p) ==
  [i \in 1..Len(p.pages) |->
     [p.pages[i] EXCEPT !.foot =
        [j \in 1..Len(@) |->
           IF p.alias THEN [@[j] EXCEPT !.alias = FALSE, !.nb = Len(p.pages)]
           ELSE @[j]]]]

(* FPDF.output: close the document (footer of the last page), resolve the *)
(* alias, serialise                                                        *)
Document(p) == Substitute(Footer(p))

Min(a, b) == IF a < b THEN a ELSE b

(* Variant: the table is not truncated *)
SampleAll(rows) == rows

(* data[:10] *)
Sample(rows) == SubSeq(rows, 1, Min(Len(rows), SampleLimit))

Entries(sales) == [i \in 1..Len(sales) |-> Cell(Money(sales[i].key, sales[i].val), 1)]

RowOps(row) ==
  IF ParseFloat(row.Amount).ok
  THEN << Cell(Txt("td", row.Date, 0), 0), Cell(Txt("td", row.Region, 0), 0),
          Cell(Txt("td", row.Product, 0), 0),
          Cell(Txt("td", "$", ParseFloat(row.Amount).val), 0), Ln(LineH) >>
  ELSE << Cell(Txt("td", row.Date, 0), 0), Cell(Txt("td", row.Region, 0), 0),
          Cell(Txt("td", row.Product, 0), 0), Raise >>

RECURSIVE TableOps(_)
TableOps(rows) ==
  IF rows = <<>> THEN <<>> ELSE RowOps(Head(rows)) \o TableOps(Tail(rows))

(* The pdf calls of generate_report, lines 88-138, in order *)
BodyOps(rows, a, now) ==
  << Cell(Txt("ts", "Report generated on", now), 1), Ln(10),
     Cell(Txt("title", "Summary Statistics", 0), 1),
     Cell(Txt("count", "Total records analyzed", a.record_count), 1),
     Cell(Money("Total sales", a.total_sales), 1),
     Cell(Txt("avg", "Average sale amount", a.average_sale.num), 1), Ln(10),
     Cell(Txt("title", "Sales by Region", 0), 1) >>
  \o Entries(a.sales_by_region)
  \o << Ln(10), Cell(Txt("title", "Sales by Product", 0), 1) >>
  \o Entries(a.sales_by_product)
  \o << Ln(10), Cell(Txt("title", "Sample Data (First 10 Records)", 0), 1),
        Cell(Txt("th", "Date", 0), 0), Cell(Txt("th", "Region", 0), 0),
        Cell(Txt("th", "Product", 0), 0), Cell(Txt("th", "Amount", 0), 0), Ln(LineH) >>
  \o TableOps(Sample(rows))

----------------------------------------------------------------------------
(* The state before main starts, whatever the input file holds *)
Start ==
  /\ logoExists \in BOOLEAN
  /\ pc = "main"
  /\ rdata = <<>>
  /\ data = NoneData
  /\ analysis = NoneAnalysis
  /\ pdf = NoPdf
  /\ todo = <<>>
  /\ genResult = FALSE
  /\ outFile = NoFile
  /\ stdout = <<>>
  /\ calls = [read |-> 0, analyze |-> 0, generate |-> 0]
  /\ written = 0
  /\ runs = 1
  /\ prevOut = NoFile

(* The input file is missing, or exists and holds one of the given row lists *)
Input(files) ==
  \/ fileExists = FALSE /\ fileRows = <<>>
  \/ fileExists = TRUE /\ fileRows \in files

Init == Input(SmallFiles) /\ Start

Bump(f) == [calls EXCEPT ![f] = @ + 1]

(* main, lines 154-155: announce and call read_data *)
MainStart ==
  /\ pc = "main"
  /\ stdout' = Append(stdout, "Reading data...")
  /\ calls' = Bump("read")
  /\ rdata' = <<>>
  /\ pc' = "read_open"
  /\ UNCHANGED <<fileExists, fileRows, logoExists, data, analysis, pdf, todo,
                 genResult, outFile, written, runs, prevOut>>

(* read_data: open(); FileNotFoundError is reported and None returned *)
ReadOpen ==
  /\ pc = "read_open"
  /\ IF fileExists
     THEN /\ pc' = "read_loop"
          /\ UNCHANGED <<data, stdout>>
     ELSE /\ stdout' = stdout \o <<"Error: file not found", "Please make sure the file exists">>
          /\ data' = NoneData
          /\ pc' = "main_check_data"
  /\ UNCHANGED <<fileExists, fileRows, logoExists, rdata, analysis, pdf, todo,
                 genResult, outFile, calls, written, runs, prevOut>>

(* read_data: one iteration of the loop over the DictReader *)
ReadRow ==
  /\ pc = "read_loop"
  /\ Len(rdata) < Len(fileRows)
  /\ rdata' = Append(rdata, fileRows[Len(rdata) + 1])
  /\ UNCHANGED <<fileExists, fileRows, logoExists, pc, data, analysis, pdf, todo,
                 genResult, outFile, stdout, calls, written, runs, prevOut>>

(* Variant: the rows read before the error are returned *)
ReadErrorPartial ==
  /\ pc = "read_loop"
  /\ stdout' = Append(stdout, "An error occurred while reading the file")
  /\ data' = SomeData(rdata)
  /\ pc' = "main_check_data"
  /\ UNCHANGED <<fileExists, fileRows, logoExists, rdata, analysis, pdf, todo,
                 genResult, outFile, calls, written, runs, prevOut>>

(* read_data: any other exception while reading is reported and None returned *)
ReadError ==
  /\ pc = "read_loop"
  /\ stdout' = Append(stdout, "An error occurred while reading the file")
  /\ data' = NoneData
  /\ pc' = "main_check_data"
  /\ UNCHANGED <<fileExists, fileRows, logoExists, rdata, analysis, pdf, todo,
                 genResult, outFile, calls, written, runs, prevOut>>

(* read_data: the loop is exhausted, the list is returned *)
ReadReturn ==
  /\ pc = "read_loop"
  /\ Len(rdata) = Len(fileRows)
  /\ data' = SomeData(rdata)
  /\ pc' = "main_check_data"
  /\ UNCHANGED <<fileExists, fileRows, logoExists, rdata, analysis, pdf, todo,
                 genResult, outFile, stdout, calls, written, runs, prevOut>>

(* Variant: main does not test the value read_data returned *)
MainCheckDataAlways ==
  /\ pc = "main_check_data"
  /\ stdout' = Append(stdout, "Analyzing data...")
  /\ calls' = Bump("analyze")
  /\ pc' = "analyze"
  /\ UNCHANGED <<fileExists, fileRows, logoExists, rdata, data, analysis, pdf, todo,
                 genResult, outFile, written, runs, prevOut>>

(* main, lines 157-161: `if not data: return`, else call analyze_data *)
MainCheckData ==
  /\ pc = "main_check_data"
  /\ IF Falsy(data)
     THEN /\ pc' = "done"
          /\ UNCHANGED <<stdout, calls>>
     ELSE /\ stdout' = Append(stdout, "Analyzing data...")
          /\ calls' = Bump("analyze")
          /\ pc' = "analyze"
  /\ UNCHANGED <<fileExists, fileRows, logoExists, rdata, data, analysis, pdf, todo,
                 genResult, outFile, written, runs, prevOut>>

(* analyze_data: None for falsy data, an uncaught ValueError for an Amount *)
(* that is no number, else the Analysis                                     *)
AnalyzeData ==
  /\ pc = "analyze"
  /\ IF Falsy(data)
     THEN /\ analysis' = NoneAnalysis
          /\ pc' = "main_check_analysis"
     ELSE IF ~AllParse(data.rows)
     THEN /\ pc' = "crashed"
          /\ UNCHANGED analysis
     ELSE /\ \E ro \in IterOrders(KeySet(data.rows, "Region")),
                po \in IterOrders(KeySet(data.rows, "Product")) :
               analysis' = Analysis(data.rows, ro, po)
          /\ pc' = "main_check_analysis"
  /\ UNCHANGED <<fileExists, fileRows, logoExists, rdata, data, pdf, todo,
                 genResult, outFile, stdout, calls, written, runs, prevOut>>

(* main, lines 163-168: `if not analysis`, else call generate_report *)
MainCheckAnalysis ==
  /\ pc = "main_check_analysis"
  /\ IF analysis.none
     THEN /\ stdout' = Append(stdout, "Error in data analysis.")
          /\ pc' = "done"
          /\ UNCHANGED calls
     ELSE /\ stdout' = Append(stdout, "Generating report...")
          /\ calls' = Bump("generate")
          /\ pc' = "generate"
  /\ UNCHANGED <<fileExists, fileRows, logoExists, rdata, data, analysis, pdf, todo,
                 genResult, outFile, written, runs, prevOut>>

(* generate_report, lines 78-85: the guard, then PDFReport(), *)
(* alias_nb_pages(), add_page()                                *)
GenerateBegin ==
  /\ pc = "generate"
  /\ IF Falsy(data) \/ analysis.none
     THEN /\ stdout' = Append(stdout, "Cannot generate report without valid data and analysis.")
          /\ genResult' = FALSE
          /\ pc' = "main_report"
          /\ UNCHANGED <<pdf, todo>>
     ELSE /\ \E now \in 1..MaxClock :
               todo' = BodyOps(data.rows, analysis, now)
          /\ pdf' = AddPage([NoPdf EXCEPT !.alias = TRUE], logoExists)
          /\ pc' = "layout"
          /\ UNCHANGED <<stdout, genResult>>
  /\ UNCHANGED <<fileExists, fileRows, logoExists, rdata, data, analysis,
                 outFile, calls, written, runs, prevOut>>

(* generate_report, lines 88-138: the next pdf.cell / pdf.ln call *)
LayoutStep ==
  /\ pc = "layout"
  /\ todo # <<>>
  /\ LET c == Head(todo) IN
       IF c.op = "raise"
       THEN /\ pc' = "crashed"
            /\ UNCHANGED <<pdf, todo>>
       ELSE /\ pdf' = IF c.op = "cell" THEN PutCell(pdf, c, logoExists)
                      ELSE [pdf EXCEPT !.y = @ + c.h]
            /\ todo' = Tail(todo)
            /\ UNCHANGED pc
  /\ UNCHANGED <<fileExists, fileRows, logoExists, rdata, data, analysis,
                 genResult, outFile, stdout, calls, written, runs, prevOut>>

(* Variant: the file is written without waiting for the rest of the body *)
OutputEarly ==
  /\ pc = "layout"
  /\ outFile' = [exists |-> TRUE, pages |-> Document(pdf)]
  /\ written' = written + 1
  /\ genResult' = TRUE
  /\ pc' = "main_report"
  /\ UNCHANGED <<fileExists, fileRows, logoExists, rdata, data, analysis, pdf, todo,
                 stdout, calls, runs, prevOut>>

(* generate_report, lines 141-142: pdf.output(output_filename); return True *)
Output ==
  /\ pc = "layout"
  /\ todo = <<>>
  /\ outFile' = [exists |-> TRUE, pages |-> Document(pdf)]
  /\ written' = written + 1
  /\ genResult' = TRUE
  /\ pc' = "main_report"
  /\ UNCHANGED <<fileExists, fileRows, logoExists, rdata, data, analysis, pdf, todo,
                 stdout, calls, runs, prevOut>>

(* main, lines 168-171: report the outcome of generate_report *)
MainReport ==
  /\ pc = "main_report"
  /\ stdout' = Append(stdout, IF genResult THEN "Report generated successfully"
                              ELSE "Failed to generate report.")
  /\ pc' = "done"
  /\ UNCHANGED <<fileExists, fileRows, logoExists, rdata, data, analysis, pdf, todo,
                 genResult, outFile, calls, written, runs, prevOut>>

(* The program is invoked again on the same files *)
Rerun ==
  /\ pc \in {"done", "crashed"}
  /\ runs < MaxRuns
  /\ runs' = runs + 1
  /\ prevOut' = outFile
  /\ pc' = "main"
  /\ rdata' = <<>>
  /\ data' = NoneData
  /\ analysis' = NoneAnalysis
  /\ pdf' = NoPdf
  /\ todo' = <<>>
  /\ genResult' = FALSE
  /\ stdout' = <<>>
  /\ calls' = [read |-> 0, analyze |-> 0, generate |-> 0]
  /\ written' = 0
  /\ UNCHANGED <<fileExists, fileRows, logoExists, outFile>>

Next == MainStart \/ ReadOpen \/ ReadRow \/ ReadError \/ ReadReturn
          \/ MainCheckData \/ AnalyzeData \/ MainCheckAnalysis
          \/ GenerateBegin \/ LayoutStep \/ Output \/ MainReport

Spec == Init /\ [][Next]_vars

(* Long inputs: enough rows to exceed the sample limit and the first page *)
InitLong == Input(LongFiles) /\ Start

SpecLong == InitLong /\ [][Next]_vars

(* The program run repeatedly on the same input *)
NextRerun == Next \/ Rerun

SpecRerun == Init /\ [][NextRerun]_vars

(* The load and aggregate stages of main, on richer inputs *)
InitAggregate == Input(AggFiles) /\ Start

NextAggregate == MainStart \/ ReadOpen \/ ReadRow \/ ReadError \/ ReadReturn
                   \/ MainCheckData \/ AnalyzeData

SpecAggregate == InitAggregate /\ [][NextAggregate]_vars

----------------------------------------------------------------------------
(* Vocabulary of the properties *)
RECURSIVE SumVals(_)
SumVals(sales) == IF sales = <<>> THEN 0 ELSE Head(sales).val + SumVals(Tail(sales))

Keys(sales) == {sales[i].key : i \in 1..Len(sales)}

(* The amount of the rows at the indices I, added up index by index *)
RECURSIVE SumAt(_, _)
SumAt(rows, I) ==
  IF I = {} THEN 0
  ELSE LET i == CHOOSE j \in I : TRUE
       IN ParseFloat(rows[i].Amount).val + SumAt(rows, I \ {i})

Matching(rows, field, k) == {i \in 1..Len(rows) : rows[i][field] = k}

IsGrouping(sales, rows, field) ==
  /\ Keys(sales) = {rows[i][field] : i \in 1..Len(rows)}
  /\ Len(sales) = Cardinality(Keys(sales))
  /\ \A j \in 1..Len(sales) :
        sales[j].val = SumAt(rows, Matching(rows, field, sales[j].key))

RECURSIVE AllBody(_)
AllBody(pages) == IF pages = <<>> THEN <<>> ELSE Head(pages).body \o AllBody(Tail(pages))

IsTd(c) == c.tag = "td"
TdCells(pages) == SelectSeq(AllBody(pages), IsTd)

IsNotTs(c) == c.tag # "ts"
WithoutTimestamp(pages) ==
  [i \in 1..Len(pages) |-> [pages[i] EXCEPT !.body = SelectSeq(@, IsNotTs)]]

Printed(m) == \E i \in 1..Len(stdout) : stdout[i] = m

Diagnostics ==
  {"Error: file not found", "An error occurred while reading the file",
   "Error in data analysis.", "Cannot generate report without valid data and analysis.",
   "Failed to generate report."}

Diagnosed == \E m \in Diagnostics : Printed(m)

Ended == pc \in {"done", "crashed"}

Loaded == pc \notin {"main", "read_open", "read_loop"}

----------------------------------------------------------------------------
(* C1: whenever analyze_data has returned an Analysis, the values of
   sales_by_region add up to total_sales and so do the values of
   sales_by_product. *)
C1_BucketsSumToTotal ==
  ~analysis.none =>
    /\ SumVals(analysis.sales_by_region) = analysis.total_sales
    /\ SumVals(analysis.sales_by_product) = analysis.total_sales

C1_Witness ==
  /\ ~analysis.none
  /\ Len(analysis.sales_by_region) = 2
  /\ Len(analysis.sales_by_product) = 2
  /\ Len(data.rows) = 3

(* C2: the keys of sales_by_region are exactly the distinct Region values of
   the records, each once, and each value is the sum of Amount over exactly
   the records of that region; likewise sales_by_product by Product. *)
C2_GroupedSums ==
  ~analysis.none =>
    /\ IsGrouping(analysis.sales_by_region, fileRows, "Region")
    /\ IsGrouping(analysis.sales_by_product, fileRows, "Product")

C2_Witness ==
  /\ ~analysis.none
  /\ Len(fileRows) = 3
  /\ Len(analysis.sales_by_region) = 2
  /\ \E j \in 1..2 : analysis.sales_by_region[j].val = 150

(* C3: when the input file does not exist, the run prints the not-found
   diagnostic and ends: analyze_data and generate_report are never entered
   and no output file is written. *)
C3_MissingFileStops ==
  ~fileExists =>
    /\ calls.analyze = 0 /\ calls.generate = 0
    /\ written = 0 /\ ~outFile.exists
    /\ pc \in {"main", "read_open", "main_check_data", "done"}
    /\ (pc \in {"main_check_data", "done"} => Printed("Error: file not found"))

C3_Witness == ~fileExists /\ pc = "done" /\ Printed("Error: file not found")

(* C4: on a header-only file the aggregator is entered, rejects the
   empty sequence by returning None, and no output file is produced. *)
C4_AggregatorRejectsEmpty ==
  (fileExists /\ fileRows = <<>> /\ pc = "done" /\ ~data.none) =>
    /\ calls.analyze = 1 /\ analysis.none
    /\ ~outFile.exists

(* C5: a run that ends on a fatal condition (file missing, read error, an
   Amount that is no number, zero records) has printed a diagnostic to
   standard output and has produced no output file. *)
C5_FatalIsDiagnosed ==
  (Ended /\ (~fileExists \/ data.none \/ fileRows = <<>> \/ ~AllParse(fileRows))) =>
    /\ Diagnosed
    /\ ~outFile.exists

(* C6: the Sample Data table of the written document has exactly
   min(n, 10) rows, and its i-th row shows the i-th record of the file. *)
C6_SampleIsFirstTen ==
  outFile.exists =>
    LET td == TdCells(outFile.pages)
        m == Min(Len(fileRows), SampleLimit)
    IN /\ Len(td) = 4 * m
       /\ \A i \in 1..m :
            /\ td[4 * (i - 1) + 1].key = fileRows[i].Date
            /\ td[4 * (i - 1) + 2].key = fileRows[i].Region
            /\ td[4 * (i - 1) + 3].key = fileRows[i].Product
            /\ td[4 * (i - 1) + 4].num = ParseFloat(fileRows[i].Amount).val

C6_Witness ==
  /\ outFile.exists
  /\ Len(fileRows) > SampleLimit
  /\ fileRows[SampleLimit].Date = "2024-01-02"

(* C7: a second run on the same input writes the same document as the first,
   the timestamp line left aside. *)
C7_RerunSameDocument ==
  (runs >= 2 /\ written = 1 /\ prevOut.exists) =>
    WithoutTimestamp(outFile.pages) = WithoutTimestamp(prevOut.pages)

(* C8: every page of the written document has the header and one footer, the
   footer of page k reads k over the number of pages of the document; while
   pages are still being laid out the total is the unresolved placeholder. *)
C8_FootersShowTrueTotal ==
  /\ outFile.exists =>
       \A k \in 1..Len(outFile.pages) :
         /\ Len(outFile.pages[k].hdr) = 1
         /\ outFile.pages[k].foot =
              <<[page_no |-> k, alias |-> FALSE, nb |-> Len(outFile.pages)]>>
  /\ \A k \in 1..Len(pdf.pages) :
       \A j \in 1..Len(pdf.pages[k].foot) : pdf.pages[k].foot[j].alias

C8_Witness == outFile.exists /\ Len(outFile.pages) = 2 /\ Len(outFile.pages[2].body) > 0

(* C9: read_data returns either all data rows of the file in file order or
   None; rows read before an error are never returned. *)
C9_AllOrNothing ==
  Loaded => (data.none \/ data.rows = fileRows)

C9_Witness == Loaded /\ fileExists /\ data.none /\ Len(rdata) >= 1 /\ Len(rdata) < Len(fileRows)

(* C10: load, aggregate and render happen in this order, each at most once;
   generate_report is entered only with non-empty data and an Analysis; the
   file is written at most once, after the whole body is laid out, so a run
   that stops earlier leaves no file; success is printed only after the
   write. *)
C10_SequentialPipeline ==
  /\ calls.read <= 1 /\ calls.analyze <= 1 /\ calls.generate <= 1 /\ written <= 1
  /\ calls.analyze = 1 => (calls.read = 1 /\ Loaded /\ ~Falsy(data))
  /\ calls.generate = 1 => (calls.analyze = 1 /\ ~Falsy(data) /\ ~analysis.none)
  /\ outFile.exists <=> written = 1
  /\ written = 1 =>
       /\ calls.generate = 1
       /\ pc \in {"main_report", "done"}
       /\ todo = <<>>
       /\ Len(AllBody(outFile.pages)) =
            12 + Len(analysis.sales_by_region) + Len(analysis.sales_by_product)
               + 4 * Min(Len(data.rows), SampleLimit)
  /\ Printed("Report generated successfully") => written = 1

C10_Witness == pc = "done" /\ Printed("Report generated successfully") /\ written = 1
====
